---------------------------- MODULE Spec2Model ----------------------------
(***************************************************************************)
(* Model of the ExpoEvents frontend (App.jsx, EventsPage, AppHeader).      *)
(*                                                                         *)
(* Three React components hold the state the claims are about:             *)
(*   - EventListPage / EventsPage : events, isLoading, bookmark toggles    *)
(*   - BookmarksPage              : events, isLoading, bookmark removals   *)
(*   - AuthProvider + MainApp     : user, isLoading, page, notifications   *)
(* Each remote call is a message in flight; its resolution (success or     *)
(* failure) is a separate step that runs the continuation the code         *)
(* attached to the promise.  React state set by a handler is taken to be   *)
(* rendered before the next user event, so the item a click handler gets   *)
(* is an item of the current collection.                                   *)
(***************************************************************************)
EXTENDS Integers, Sequences, FiniteSets, Bags, TLC

\* ------------------------------------------------------------- bounds --
NumIds == 2          \* event ids are 1..NumIds
MaxInFlight == 2     \* mutation calls of one kind in flight at once
MaxFetches == 1      \* list fetches of one kind in flight at once
NumUsers == 2        \* identities the server knows are 1..NumUsers
NumNotifs == 1       \* notification ids are 1..NumNotifs
MaxPending == 2      \* auth, mark-read and notification calls in flight
MaxLogouts == 1      \* logout calls in flight at once
MaxClicks == 2       \* card clicks in a run of toggles

Ids == 1..NumIds

VARIABLES
  events,      \* EventListPage: useState([])  -- sequence of items
  evLoading,   \* EventListPage: useState(true)
  evFetches,   \* GET /events calls in flight
  toggles,     \* bag of bookmark POST/DELETE calls in flight, each with
               \* the closure's `event` and the method chosen
  evLast,      \* history: the last step of the events page
  bmEvents,    \* BookmarksPage: useState([])  -- sequence of items
  bmLoading,   \* BookmarksPage: useState(true)
  bmFetches,   \* GET /events/my-bookmarks calls in flight
  removals,    \* bag of DELETE calls in flight, each with the closure's `event`
  bmLast,      \* history: the last step of the bookmarks page
  user,        \* AuthProvider: useState(null)
  authLoading, \* AuthProvider: useState(true)
  checkCalls,  \* GET /auth/check calls in flight
  authCalls,   \* bag of POST /auth/login and /auth/register calls in flight
  logoutCalls, \* POST /auth/logout calls in flight
  authError,   \* AuthPage: useState(null), as "is an error shown"
  page,        \* MainApp: useState('events')
  notifications, \* MainApp: useState([])
  effectDue,   \* MainApp: the [user] effect has yet to run for this render
  notifFetches, \* GET /events/notifications calls in flight
  markCalls,   \* bag of PUT /events/notifications/{id}/read calls in flight
  seLast,      \* history: the last step of the session and notifications
  unhandled,   \* a promise rejected with no handler attached to it
  notifFresh,  \* `notifications` was delivered by a fetch of this session
  staleFetches, \* notification fetches in flight that an earlier session made
  srvBookmarked, \* the server's bookmark state of each event, for the user
  tLoaded,     \* the collection as the first GET /events delivered it
  tOutcome,    \* of each event: how the call of its toggle ended
  tClicks      \* card clicks so far in the run of toggles

evVars == <<events, evLoading, evFetches, toggles, evLast>>

bmVars == <<bmEvents, bmLoading, bmFetches, removals, bmLast>>

seVars == <<user, authLoading, checkCalls, authCalls, logoutCalls, authError,
            page, notifications, effectDue, notifFetches, markCalls, seLast,
            unhandled, notifFresh, staleFetches>>

\* The server's side of the bookmarks and the record of a run of toggles.
tgVars == <<srvBookmarked, tLoaded, tOutcome, tClicks>>

vars == <<evVars, bmVars, seVars, tgVars>>

\* -------------------------------------------------------------- items --
\* An event as the server returns it: id, some payload, the client flag.
Item(i, b) == [id |-> i, name |-> i + 10, isBookmarked |-> b]

Range(s) == {s[p] : p \in DOMAIN s}

IdsOf(list) == [p \in DOMAIN list |-> list[p].id]

DistinctIds(list) ==
  \A p, q \in DOMAIN list : list[p].id = list[q].id => p = q

\* Every list the server can answer GET /events with: any order, any
\* subset of the ids, any flags, ids pairwise distinct.
EventLists ==
  { l \in UNION { [1..n -> {Item(i, b) : i \in Ids, b \in BOOLEAN}] : n \in 0..NumIds } :
      DistinctIds(l) }

\* ------------------------------------------------- handleBookmarkToggle --
\* currentEvents.map(e => e.id === event.id
\*                          ? { ...e, isBookmarked: !e.isBookmarked } : e)
ToggleFlagAll(list, event) ==
  [p \in DOMAIN list |-> [list[p] EXCEPT !.isBookmarked = ~list[p].isBookmarked]]

ToggleFlag(list, event) ==
  [p \in DOMAIN list |->
     IF list[p].id = event.id
       THEN [list[p] EXCEPT !.isBookmarked = ~list[p].isBookmarked]
       ELSE list[p]]

\* event.isBookmarked ? api.delete(...) : api.post(...)
BookmarkRequestSwapped(event) == IF event.isBookmarked THEN "POST" ELSE "DELETE"

BookmarkRequest(event) == IF event.isBookmarked THEN "DELETE" ELSE "POST"

\* promise.catch: currentEvents.map(e => e.id === event.id
\*                   ? { ...e, isBookmarked: event.isBookmarked } : e)
RevertFlagFlip(list, event) ==
  [p \in DOMAIN list |->
     IF list[p].id = event.id
       THEN [list[p] EXCEPT !.isBookmarked = ~event.isBookmarked]
       ELSE list[p]]

RevertFlagByPosition(list, event) ==
  [p \in DOMAIN list |->
     IF p = event.id
       THEN [list[p] EXCEPT !.isBookmarked = event.isBookmarked]
       ELSE list[p]]

RevertFlagAll(list, event) ==
  [p \in DOMAIN list |-> [list[p] EXCEPT !.isBookmarked = event.isBookmarked]]

RevertFlag(list, event) ==
  [p \in DOMAIN list |->
     IF list[p].id = event.id
       THEN [list[p] EXCEPT !.isBookmarked = event.isBookmarked]
       ELSE list[p]]

\* The promise has a .catch and no .then: fulfilment runs no code.
ToggleFulfilledReapply(list, event) == ToggleFlag(list, event)

ToggleFulfilled(list, event) == list

\* History of the last step: what ran, on which item, and the collection
\* it found.  rel says how the step before relates to a resolving call:
\* "direct" when that step issued the call (orig is then the collection
\* before the optimistic flip); "removed" when it was a fetch that took an
\* item out of the collection while the call was in flight, "reordered"
\* when it was one that changed the sequence of ids and took none out.
\* A fulfilment runs no code of the page, so its step records the item only
\* when it is "direct" and the collection it found otherwise.
EvStep(op, event, rel, orig) ==
  [op |-> op, id |-> event.id, pre |-> event.isBookmarked, rel |-> rel,
   before |-> events, orig |-> orig]

EvQuiet(op) ==
  [op |-> op, id |-> 0, pre |-> FALSE, rel |-> "none",
   before |-> << >>, orig |-> << >>]

Call(event) == [event |-> event, method |-> BookmarkRequest(event)]

\* How the step before relates to the call that resolves now.
RelOf(call) ==
  IF evLast.op = "toggle" /\ evLast.id = call.event.id /\ evLast.pre = call.event.isBookmarked
    THEN "direct"
    ELSE IF evLast.op = "fetchOk" THEN evLast.rel ELSE "none"

OrigOf(call) == IF RelOf(call) = "direct" THEN evLast.before ELSE << >>

\* --------------------------------------------------------- events page --
\* After mount: events = [], isLoading = true, and the mount effect has
\* called fetchEvents, whose GET is in flight.
EvInit ==
  /\ events = << >>
  /\ evLoading = TRUE
  /\ evFetches = 1
  /\ toggles = EmptyBag
  /\ evLast = EvQuiet("mount")

\* The Refresh button (always rendered): fetchEvents up to its await.
Refresh ==
  /\ evFetches < MaxFetches
  /\ evLoading' = TRUE
  /\ evFetches' = evFetches + 1
  /\ evLast' = EvQuiet("refresh")
  /\ UNCHANGED <<events, toggles, bmVars, seVars, tgVars>>

\* GET /events fulfils with `data`: setEvents(data); setIsLoading(false).
FetchEventsFulfilled(data) ==
  /\ evFetches > 0
  /\ events' = data
  /\ evLast' = [EvQuiet("fetchOk") EXCEPT
                  !.rel = IF toggles = EmptyBag \/ IdsOf(data) = IdsOf(events)
                            THEN "none"
                            ELSE IF Range(IdsOf(events)) \subseteq Range(IdsOf(data))
                                   THEN "reordered" ELSE "removed"]
  /\ evLoading' = FALSE
  /\ evFetches' = evFetches - 1
  /\ UNCHANGED toggles

FetchEventsOk ==
  /\ \E data \in EventLists : FetchEventsFulfilled(data)
  /\ UNCHANGED <<bmVars, seVars, tgVars>>

\* GET /events rejects: console.error; setIsLoading(false).
FetchEventsFailKeepsLoading ==
  /\ evFetches > 0
  /\ evFetches' = evFetches - 1
  /\ evLast' = EvQuiet("fetchFail")
  /\ UNCHANGED <<events, evLoading, toggles, bmVars, seVars, tgVars>>

FetchEventsFail ==
  /\ evFetches > 0
  /\ evLoading' = FALSE
  /\ evFetches' = evFetches - 1
  /\ evLast' = EvQuiet("fetchFail")
  /\ UNCHANGED <<events, toggles, bmVars, seVars, tgVars>>

\* A click on the card of events[p]: the cards are rendered only while
\* isLoading is false.  The optimistic setEvents and the request.
BookmarkToggleOf(event) ==
  /\ ~evLoading
  /\ BagCardinality(toggles) < MaxInFlight
  /\ events' = ToggleFlag(events, event)
  /\ toggles' = toggles (+) SetToBag({Call(event)})
  /\ evLast' = EvStep("toggle", event, "none", << >>)
  /\ UNCHANGED <<evLoading, evFetches>>

HandleBookmarkToggle ==
  /\ \E p \in DOMAIN events : BookmarkToggleOf(events[p])
  /\ UNCHANGED <<bmVars, seVars, tgVars>>

\* A bookmark call in flight fulfils.
ToggleOkOf(call) ==
  /\ events' = ToggleFulfilled(events, call.event)
  /\ toggles' = toggles (-) SetToBag({call})
  /\ evLast' = IF RelOf(call) = "direct"
                  THEN EvStep("toggleOk", call.event, "direct", OrigOf(call))
                  ELSE [EvQuiet("toggleOk") EXCEPT !.before = events]
  /\ UNCHANGED <<evLoading, evFetches>>

ToggleOk ==
  /\ \E call \in BagToSet(toggles) : ToggleOkOf(call)
  /\ UNCHANGED <<bmVars, seVars, tgVars>>

\* A bookmark call in flight rejects: the .catch callback.
ToggleFailOf(call) ==
  /\ events' = RevertFlag(events, call.event)
  /\ toggles' = toggles (-) SetToBag({call})
  /\ evLast' = EvStep("toggleFail", call.event, RelOf(call), OrigOf(call))
  /\ UNCHANGED <<evLoading, evFetches>>

ToggleFail ==
  /\ \E call \in BagToSet(toggles) : ToggleFailOf(call)
  /\ UNCHANGED <<bmVars, seVars, tgVars>>

EvNext ==
  \/ Refresh
  \/ FetchEventsOk
  \/ FetchEventsFail
  \/ HandleBookmarkToggle
  \/ ToggleOk
  \/ ToggleFail

\* ------------------------------------------------ handleRemoveBookmark --
\* currentEvents.filter(e => e.id !== event.id)
RemoveByIdKeepsAll(list, event) == SelectSeq(list, LAMBDA e : e.id # event.name)

RemoveById(list, event) == SelectSeq(list, LAMBDA e : e.id # event.id)

\* .catch: [...currentEvents, event]
ReinsertFlagged(list, event) ==
  Append(list, [event EXCEPT !.isBookmarked = ~event.isBookmarked])

ReinsertFirst(list, event) == <<event>> \o list

Reinsert(list, event) == Append(list, event)

NoItem == Item(0, FALSE)

BmStep(op, event, direct) ==
  [op |-> op, event |-> event, before |-> bmEvents,
   orig |-> IF direct THEN bmLast.before ELSE << >>, direct |-> direct]

BmQuiet(op) ==
  [op |-> op, event |-> NoItem, before |-> << >>, orig |-> << >>, direct |-> FALSE]

\* Whether the step before issued the call that resolves now.
IssuedJustBefore(event) == bmLast.op = "remove" /\ bmLast.event = event

\* ------------------------------------------------------ bookmarks page --
\* After mount: events = [], isLoading = true, and the mount effect has
\* called fetchBookmarkedEvents, whose GET is in flight.
BmInit ==
  /\ bmEvents = << >>
  /\ bmLoading = TRUE
  /\ bmFetches = 1
  /\ removals = EmptyBag
  /\ bmLast = BmQuiet("mount")

\* GET /events/my-bookmarks fulfils: setEvents(data); setIsLoading(false).
FetchBookmarksOk ==
  /\ bmFetches > 0
  /\ \E data \in EventLists : bmEvents' = data
  /\ bmLoading' = FALSE
  /\ bmFetches' = bmFetches - 1
  /\ bmLast' = BmQuiet("fetchOk")
  /\ UNCHANGED <<removals, evVars, seVars, tgVars>>

\* GET /events/my-bookmarks rejects: console.error; setIsLoading(false).
FetchBookmarksFail ==
  /\ bmFetches > 0
  /\ bmLoading' = FALSE
  /\ bmFetches' = bmFetches - 1
  /\ bmLast' = BmQuiet("fetchFail")
  /\ UNCHANGED <<bmEvents, removals, evVars, seVars, tgVars>>

\* A click on the card of bmEvents[p] (rendered while isLoading is false):
\* the optimistic filter and the DELETE.
HandleRemoveBookmark ==
  /\ ~bmLoading
  /\ BagCardinality(removals) < MaxInFlight
  /\ \E p \in DOMAIN bmEvents :
       LET event == bmEvents[p] IN
         /\ bmEvents' = RemoveById(bmEvents, event)
         /\ removals' = removals (+) SetToBag({event})
         /\ bmLast' = BmStep("remove", event, FALSE)
  /\ UNCHANGED <<bmLoading, bmFetches, evVars, seVars, tgVars>>

\* A DELETE in flight fulfils: no handler is attached.
RemoveOk ==
  \E event \in BagToSet(removals) :
    /\ removals' = removals (-) SetToBag({event})
    /\ bmLast' = BmStep("removeOk", event, IssuedJustBefore(event))
    /\ UNCHANGED <<bmEvents, bmLoading, bmFetches, evVars, seVars, tgVars>>

\* A DELETE in flight rejects: the .catch callback appends the item.
RemoveFail ==
  \E event \in BagToSet(removals) :
    /\ bmEvents' = Reinsert(bmEvents, event)
    /\ removals' = removals (-) SetToBag({event})
    /\ bmLast' = BmStep("removeFail", event, IssuedJustBefore(event))
    /\ UNCHANGED <<bmLoading, bmFetches, evVars, seVars, tgVars>>

BmNext ==
  \/ FetchBookmarksOk
  \/ FetchBookmarksFail
  \/ HandleRemoveBookmark
  \/ RemoveOk
  \/ RemoveFail

\* ------------------------------------------------- session and MainApp --
NoUser == 0

Users == 1..NumUsers

\* The three states of the session store.
SessionState ==
  IF authLoading THEN "unknown"
  ELSE IF user # NoUser THEN "authenticated" ELSE "anonymous"

\* A notification as the server returns it.
Notif(i, r) == [id |-> i, message |-> i + 20, is_read |-> r]

\* Every list the server answers GET /events/notifications with: any
\* subset of the notifications, in the order of their ids, any read flags.
NotifLists ==
  { l \in UNION { [1..n -> {Notif(i, r) : i \in 1..NumNotifs, r \in BOOLEAN}] :
                    n \in 0..NumNotifs } :
      \A p, q \in DOMAIN l : p < q => l[p].id < l[q].id }

\* notifications.filter(n => !n.is_read).length
unreadCount == Cardinality({p \in DOMAIN notifications : ~notifications[p].is_read})

\* AuthProvider renders {!isLoading && children}; MainApp, its child,
\* renders the loading indicator while isLoading and the page otherwise.
MainAppView == IF authLoading THEN "loading-indicator" ELSE page

AppView == IF ~authLoading THEN MainAppView ELSE "nothing"

\* checkSession, login, register, logout: the value each hands to setUser.
OnCheckFulfilled(data) == data

OnCheckRejected == NoUser

OnAuthFulfilled(data) == data

\* handleSubmit's catch sets the form's error and never calls setUser.
OnAuthRejectedClears(current) == NoUser

OnAuthRejected(current) == current

OnLogoutFulfilled == NoUser

\* logout has no catch: a rejected POST skips setUser(null).
OnLogoutRejected(current) == current

\* onClick={logout}: the promise the async logout returns has no handler.
UnhandledOnLogoutRejected(current) == TRUE

\* handleMarkRead awaits the PUT inside try/catch; the catch logs.
UnhandledOnMarkReadRejectedUncaught(current) == TRUE

UnhandledOnMarkReadRejected(current) == current

\* handleMarkRead patches nothing locally, before or after the PUT.
NotifsOnMarkReadPatched(list, id) ==
  [p \in DOMAIN list |-> IF list[p].id = id THEN [list[p] EXCEPT !.is_read = TRUE]
                                             ELSE list[p]]

NotifsOnMarkRead(list, id) == list

\* Which of the notification fetches in flight can settle now: one that an
\* earlier session made (TRUE) or one of this session (FALSE).  A session
\* ends and the next begins when login, register or logout fulfils.
SettlingFetches ==
  {stale \in BOOLEAN : IF stale THEN staleFetches > 0 ELSE notifFetches > staleFetches}

\* Calls whose resolution can start a notification fetch, and those fetches.
Pending == notifFetches + BagCardinality(authCalls) + BagCardinality(markCalls)

\* History of the last step: the session state and the notification state
\* it found, and whether it changed the list (after: the list it leaves).
\* direct: the step before was the click that issued the PUT that resolves
\* now, and orig is the list that click found.
SeStep(op, id, direct, after) ==
  [op |-> op, id |-> id, from |-> SessionState,
   changed |-> after # notifications,
   fetchesBefore |-> notifFetches,
   notifsBefore |-> IF op \in {"markRead", "markReadOk", "markReadFail"}
                      THEN notifications ELSE << >>,
   direct |-> direct,
   orig |-> IF direct THEN seLast.notifsBefore ELSE << >>]

SeInit ==
  /\ user = NoUser
  /\ authLoading = TRUE
  /\ checkCalls = 1
  /\ authCalls = EmptyBag
  /\ logoutCalls = 0
  /\ authError = FALSE
  /\ page = "events"
  /\ notifications = << >>
  /\ effectDue = FALSE
  /\ notifFetches = 0
  /\ markCalls = EmptyBag
  /\ unhandled = FALSE
  /\ notifFresh = FALSE
  /\ staleFetches = 0
  /\ seLast = [op |-> "init", id |-> 0, from |-> "unknown", changed |-> FALSE,
               fetchesBefore |-> 0, notifsBefore |-> << >>, direct |-> FALSE,
               orig |-> << >>]

\* GET /auth/check fulfils: setUser(response.data); setIsLoading(false).
\* MainApp mounts with this render and its [user] effect is due.
CheckSessionOk ==
  /\ checkCalls > 0
  /\ \E data \in Users : user' = OnCheckFulfilled(data)
  /\ authLoading' = FALSE
  /\ checkCalls' = checkCalls - 1
  /\ effectDue' = TRUE
  /\ seLast' = SeStep("checkOk", 0, FALSE, notifications)
  /\ UNCHANGED <<authCalls, logoutCalls, authError, page, notifications,
                 notifFetches, markCalls, unhandled, notifFresh, staleFetches, evVars, bmVars, tgVars>>

\* GET /auth/check rejects: setUser(null); setIsLoading(false).
CheckSessionFail ==
  /\ checkCalls > 0
  /\ user' = OnCheckRejected
  /\ authLoading' = FALSE
  /\ checkCalls' = checkCalls - 1
  /\ effectDue' = TRUE
  /\ seLast' = SeStep("checkFail", 0, FALSE, notifications)
  /\ UNCHANGED <<authCalls, logoutCalls, authError, page, notifications,
                 notifFetches, markCalls, unhandled, notifFresh, staleFetches, evVars, bmVars, tgVars>>

\* useEffect(..., [user]): runs after the render in which user changed (and
\* after MainApp's first render), before any later update is processed.
UserEffect ==
  /\ effectDue
  /\ effectDue' = FALSE
  /\ IF user # NoUser
       THEN /\ page' = "events"
            /\ notifFetches' = notifFetches + 1
       ELSE /\ page' = "login"
            /\ UNCHANGED notifFetches
  /\ authError' = IF page' = "login" /\ page = "login" THEN authError ELSE FALSE
  /\ seLast' = SeStep("effect", 0, FALSE, notifications)
  /\ UNCHANGED <<user, authLoading, checkCalls, authCalls, logoutCalls,
                 notifications, markCalls, unhandled, notifFresh, staleFetches,
                 evVars, bmVars, tgVars>>

\* A NavButton of the header, rendered while user is set.
Navigate ==
  /\ ~authLoading /\ ~effectDue
  /\ user # NoUser
  /\ \E target \in {"events", "bookmarks", "notifications"} : page' = target
  /\ seLast' = SeStep("navigate", 0, FALSE, notifications)
  /\ UNCHANGED <<user, authLoading, checkCalls, authCalls, logoutCalls, authError,
                 notifications, effectDue, notifFetches, markCalls,
                 unhandled, notifFresh, staleFetches, evVars, bmVars, tgVars>>

\* AuthPage.handleSubmit up to its await: setError(null), then login or
\* register posts the credentials.
HandleSubmit ==
  /\ ~authLoading /\ ~effectDue
  /\ page = "login"
  /\ Pending < MaxPending
  /\ \E kind \in {"login", "register"}, who \in Users :
       /\ authCalls' = authCalls (+) SetToBag({[kind |-> kind, who |-> who]})
       /\ seLast' = SeStep(kind, who, FALSE, notifications)
  /\ authError' = FALSE
  /\ UNCHANGED <<user, authLoading, checkCalls, logoutCalls, page, notifications,
                 effectDue, notifFetches, markCalls,
                 unhandled, notifFresh, staleFetches, evVars, bmVars, tgVars>>

\* POST /auth/login or /auth/register fulfils: setUser(response.data).
\* response.data is a new object, so the [user] effect is due.
AuthOk ==
  /\ ~effectDue
  /\ \E call \in BagToSet(authCalls) :
       /\ user' = OnAuthFulfilled(call.who)
       /\ authCalls' = authCalls (-) SetToBag({call})
       /\ seLast' = SeStep(IF call.kind = "login" THEN "loginOk" ELSE "registerOk",
                           call.who, FALSE, notifications)
  /\ effectDue' = TRUE
  /\ notifFresh' = FALSE
  /\ staleFetches' = notifFetches
  /\ UNCHANGED <<authLoading, checkCalls, logoutCalls, authError, page,
                 notifications, notifFetches, markCalls,
                 unhandled, evVars, bmVars, tgVars>>

\* POST /auth/login or /auth/register rejects: handleSubmit's catch sets the
\* error of the form, if the form is still mounted.
AuthFail ==
  /\ ~effectDue
  /\ \E call \in BagToSet(authCalls) :
       /\ user' = OnAuthRejected(user)
       /\ authCalls' = authCalls (-) SetToBag({call})
       /\ seLast' = SeStep(IF call.kind = "login" THEN "loginFail" ELSE "registerFail",
                           call.who, FALSE, notifications)
  /\ authError' = IF page = "login" THEN TRUE ELSE authError
  /\ UNCHANGED <<authLoading, checkCalls, logoutCalls, page, notifications,
                 effectDue, notifFetches, markCalls,
                 unhandled, notifFresh, staleFetches, evVars, bmVars, tgVars>>

\* The Logout / Sign Out button of the header: logout up to its await.
Logout ==
  /\ ~authLoading /\ ~effectDue
  /\ user # NoUser
  /\ logoutCalls < MaxLogouts
  /\ logoutCalls' = logoutCalls + 1
  /\ seLast' = SeStep("logout", 0, FALSE, notifications)
  /\ UNCHANGED <<user, authLoading, checkCalls, authCalls, authError, page,
                 notifications, effectDue, notifFetches, markCalls,
                 unhandled, notifFresh, staleFetches, evVars, bmVars, tgVars>>

\* POST /auth/logout fulfils: setUser(null).
LogoutOk ==
  /\ ~effectDue
  /\ logoutCalls > 0
  /\ user' = OnLogoutFulfilled
  /\ effectDue' = (user' # user)
  /\ logoutCalls' = logoutCalls - 1
  /\ seLast' = SeStep("logoutOk", 0, FALSE, notifications)
  /\ notifFresh' = FALSE
  /\ staleFetches' = notifFetches
  /\ UNCHANGED <<authLoading, checkCalls, authCalls, authError, page,
                 notifications, notifFetches, markCalls,
                 unhandled, evVars, bmVars, tgVars>>

\* POST /auth/logout rejects: the await throws past setUser(null).
LogoutFail ==
  /\ ~effectDue
  /\ logoutCalls > 0
  /\ user' = OnLogoutRejected(user)
  /\ logoutCalls' = logoutCalls - 1
  /\ seLast' = SeStep("logoutFail", 0, FALSE, notifications)
  /\ unhandled' = UnhandledOnLogoutRejected(unhandled)
  /\ UNCHANGED <<authLoading, checkCalls, authCalls, authError, page,
                 notifications, effectDue, notifFetches, markCalls,
                 notifFresh, staleFetches, evVars, bmVars, tgVars>>

\* GET /events/notifications fulfils: setNotifications(response.data).
FetchNotificationsOk ==
  /\ ~effectDue
  /\ notifFetches > 0
  /\ \E data \in NotifLists :
       /\ notifications' = data
       /\ seLast' = SeStep("notifFetchOk", 0, FALSE, data)
  /\ \E stale \in SettlingFetches :
       /\ staleFetches' = IF stale THEN staleFetches - 1 ELSE staleFetches
       /\ notifFresh' = ~stale
  /\ notifFetches' = notifFetches - 1
  /\ UNCHANGED <<user, authLoading, checkCalls, authCalls, logoutCalls, authError,
                 page, effectDue, markCalls,
                 unhandled, evVars, bmVars, tgVars>>

\* GET /events/notifications rejects: console.error.
FetchNotificationsFail ==
  /\ ~effectDue
  /\ notifFetches > 0
  /\ notifFetches' = notifFetches - 1
  /\ seLast' = SeStep("notifFetchFail", 0, FALSE, notifications)
  /\ \E stale \in SettlingFetches :
       staleFetches' = IF stale THEN staleFetches - 1 ELSE staleFetches
  /\ UNCHANGED <<user, authLoading, checkCalls, authCalls, logoutCalls, authError,
                 page, notifications, effectDue, markCalls,
                 unhandled, notifFresh, evVars, bmVars, tgVars>>

\* The Mark Read button of an unread notification on the notifications
\* page: handleMarkRead up to its await.
HandleMarkRead ==
  /\ ~authLoading /\ ~effectDue
  /\ page = "notifications"
  /\ Pending < MaxPending
  /\ \E p \in DOMAIN notifications :
       /\ ~notifications[p].is_read
       /\ notifications' = NotifsOnMarkRead(notifications, notifications[p].id)
       /\ markCalls' = markCalls (+) SetToBag({notifications[p].id})
       /\ seLast' = SeStep("markRead", notifications[p].id, FALSE,
                           NotifsOnMarkRead(notifications, notifications[p].id))
  /\ UNCHANGED <<user, authLoading, checkCalls, authCalls, logoutCalls, authError,
                 page, effectDue, notifFetches,
                 unhandled, notifFresh, staleFetches, evVars, bmVars, tgVars>>

\* PUT .../read fulfils: fetchNotifications() is called.
MarkReadOk ==
  /\ ~effectDue
  /\ \E id \in BagToSet(markCalls) :
       /\ markCalls' = markCalls (-) SetToBag({id})
       /\ seLast' = SeStep("markReadOk", id, seLast.op = "markRead" /\ seLast.id = id,
                           notifications)
  /\ notifFetches' = notifFetches + 1
  /\ UNCHANGED <<user, authLoading, checkCalls, authCalls, logoutCalls, authError,
                 page, notifications, effectDue,
                 unhandled, notifFresh, staleFetches, evVars, bmVars, tgVars>>

\* PUT .../read rejects: console.error.
MarkReadFail ==
  /\ ~effectDue
  /\ \E id \in BagToSet(markCalls) :
       /\ markCalls' = markCalls (-) SetToBag({id})
       /\ seLast' = SeStep("markReadFail", id, seLast.op = "markRead" /\ seLast.id = id,
                           notifications)
  /\ unhandled' = UnhandledOnMarkReadRejected(unhandled)
  /\ UNCHANGED <<user, authLoading, checkCalls, authCalls, logoutCalls, authError,
                 page, notifications, effectDue, notifFetches,
                 notifFresh, staleFetches, evVars, bmVars, tgVars>>

SeNext ==
  \/ CheckSessionOk
  \/ CheckSessionFail
  \/ UserEffect
  \/ Navigate
  \/ HandleSubmit
  \/ AuthOk
  \/ AuthFail
  \/ Logout
  \/ LogoutOk
  \/ LogoutFail
  \/ FetchNotificationsOk
  \/ FetchNotificationsFail
  \/ HandleMarkRead
  \/ MarkReadOk
  \/ MarkReadFail

\* ------------------------------------------------------ a run of toggles --
\* The events page after its mount, followed by the server: the first
\* GET /events delivers the server's bookmark state, then cards are toggled
\* and the calls resolve in any order.  No Refresh is clicked in the run.
\* A POST that the server accepts leaves the event bookmarked and a DELETE
\* leaves it not bookmarked; a call that rejects leaves the server as it was.
ServerAfter(srv, call) == [srv EXCEPT ![call.event.id] = (call.method = "POST")]

\* The bookmark state of each event as a delivered collection shows it.
ServerSeenIn(data) ==
  [i \in Ids |-> \E p \in DOMAIN data : data[p].id = i /\ data[p].isBookmarked]

TgInit ==
  /\ srvBookmarked = [i \in Ids |-> FALSE]
  /\ tLoaded = << >>
  /\ tOutcome = [i \in Ids |-> "idle"]
  /\ tClicks = 0

\* The GET /events of the mount fulfils with the server's state.
TgLoad ==
  /\ \E data \in EventLists :
       /\ FetchEventsFulfilled(data)
       /\ srvBookmarked' = ServerSeenIn(data)
       /\ tLoaded' = data
  /\ UNCHANGED <<tOutcome, tClicks, bmVars, seVars>>

\* A click on a card; "again" marks an event that is toggled a second time.
TgToggle ==
  /\ tClicks < MaxClicks
  /\ tClicks' = tClicks + 1
  /\ \E p \in DOMAIN events :
       /\ BookmarkToggleOf(events[p])
       /\ tOutcome' = [tOutcome EXCEPT ![events[p].id] =
                                         IF @ = "idle" THEN "flying" ELSE "again"]
  /\ UNCHANGED <<srvBookmarked, tLoaded, bmVars, seVars>>

\* The server accepts a call and the call fulfils.
TgToggleOk ==
  /\ \E call \in BagToSet(toggles) :
       /\ ToggleOkOf(call)
       /\ srvBookmarked' = ServerAfter(srvBookmarked, call)
       /\ tOutcome' = [tOutcome EXCEPT ![call.event.id] =
                                         IF @ = "flying" THEN "ok" ELSE @]
  /\ UNCHANGED <<tLoaded, tClicks, bmVars, seVars>>

\* A call rejects.
TgToggleFail ==
  /\ \E call \in BagToSet(toggles) :
       /\ ToggleFailOf(call)
       /\ tOutcome' = [tOutcome EXCEPT ![call.event.id] =
                                         IF @ = "flying" THEN "fail" ELSE @]
  /\ UNCHANGED <<srvBookmarked, tLoaded, tClicks, bmVars, seVars>>

TgNext ==
  \/ TgLoad
  \/ TgToggle
  \/ TgToggleOk
  \/ TgToggleFail

\* ----------------------------------------------------- specifications --
\* The pages and the session holder are separate components with separate
\* state: each is checked with the others at rest.
Init == EvInit /\ BmInit /\ SeInit /\ TgInit

SpecToggles == Init /\ [][TgNext]_vars

SpecEvents == Init /\ [][EvNext]_vars

SpecBookmarks == Init /\ [][BmNext]_vars

SpecSession == Init /\ [][SeNext]_vars

\* The three mutation sites in one specification.  The components share no
\* state, so each runs from the mount while the other two are as mounted:
\* the events page after its first fetch, the bookmarks page, and the
\* notifications page of a user whose session check fulfilled.
EventsPageMutates ==
  BmInit /\ SeInit /\ (FetchEventsOk \/ HandleBookmarkToggle \/ ToggleOk \/ ToggleFail)

BookmarksPageMutates == EvInit /\ SeInit /\ BmNext

NotificationsPageMutates ==
  /\ EvInit /\ BmInit
  /\ \/ CheckSessionOk
     \/ UserEffect
     \/ Navigate
     \/ FetchNotificationsOk
     \/ FetchNotificationsFail
     \/ HandleMarkRead
     \/ MarkReadOk
     \/ MarkReadFail

MutationsNext ==
  \/ EventsPageMutates
  \/ BookmarksPageMutates
  \/ NotificationsPageMutates

SpecMutations == Init /\ [][MutationsNext]_vars

\* The fetches, the session check and the clicks they gate.  Every remote
\* call resolves in the end: a fetch or a check that is in flight is
\* eventually fulfilled or rejected.  The resolution of a bookmark call
\* touches no isLoading flag and is left out; a card is clicked while no
\* bookmark call of its page is in flight.
EventsFetchSettles == BmInit /\ SeInit /\ (FetchEventsOk \/ FetchEventsFail)

EventsPageLoads ==
  \/ EventsFetchSettles
  \/ BmInit /\ SeInit /\ (Refresh \/ (toggles = EmptyBag /\ HandleBookmarkToggle))

BookmarksFetchSettles == EvInit /\ SeInit /\ (FetchBookmarksOk \/ FetchBookmarksFail)

BookmarksPageLoads ==
  \/ BookmarksFetchSettles
  \/ EvInit /\ SeInit /\ removals = EmptyBag /\ HandleRemoveBookmark

SessionCheckSettles == EvInit /\ BmInit /\ (CheckSessionOk \/ CheckSessionFail)

LoadingNext ==
  \/ EventsPageLoads
  \/ BookmarksPageLoads
  \/ SessionCheckSettles

SpecLoading ==
  /\ Init
  /\ [][LoadingNext]_vars
  /\ WF_vars(EventsFetchSettles)
  /\ WF_vars(BookmarksFetchSettles)
  /\ WF_vars(SessionCheckSettles)

Next == EvNext \/ BmNext \/ SeNext \/ TgNext

Spec == Init /\ [][Next]_vars

\* ------------------------------------------------------------- claims --
FlagOf(list, i) == {list[p].isBookmarked : p \in {q \in DOMAIN list : list[q].id = i}}

\* C1 -- Toggle rollback: when the call of a toggle of item i rejects and no
\* other step came between the toggle and the rejection, the collection is
\* the collection C the toggle found: same items, same order, same flags,
\* and item i's isBookmarked is its pre-toggle value f.
C1_ToggleRollback ==
  (evLast.op = "toggleFail" /\ evLast.rel = "direct") =>
    /\ events = evLast.orig
    /\ FlagOf(events, evLast.id) = {evLast.pre}
    /\ FlagOf(evLast.orig, evLast.id) = {evLast.pre}

C1_Witness ==
  /\ evLast.op = "toggleFail"
  /\ evLast.rel = "direct"
  /\ Len(events) >= 2
  /\ evLast.id \in Range(IdsOf(events))

\* C2 -- Toggle success stability: the fulfilment of a toggle's call changes
\* nothing in the collection; when no other step came between, item i's flag
\* is not-f and every other item is as the toggle found it.
C2_ToggleSuccessStable ==
  evLast.op = "toggleOk" =>
    /\ events = evLast.before
    /\ evLast.rel = "direct" =>
         /\ FlagOf(events, evLast.id) = {~evLast.pre}
         /\ IdsOf(events) = IdsOf(evLast.orig)
         /\ \A p \in DOMAIN events :
              events[p].id # evLast.id => events[p] = evLast.orig[p]

C2_Witness ==
  /\ evLast.op = "toggleOk"
  /\ evLast.rel = "direct"
  /\ Len(events) >= 2
  /\ evLast.id \in Range(IdsOf(events))

\* C3 -- Identity by id: when the call of a toggle of item i rejects, whatever
\* fetch removed or reordered items while it was in flight, the rollback
\* leaves the sequence of ids as it finds it (a removed item j stays absent),
\* sets the flag of the item with id i, wherever it is, to the pre-toggle
\* value, and changes no other item.
C3_RollbackById ==
  evLast.op = "toggleFail" =>
    /\ Len(events) = Len(evLast.before)
    /\ \A p \in DOMAIN events :
         IF evLast.before[p].id = evLast.id
           THEN events[p] = [evLast.before[p] EXCEPT !.isBookmarked = evLast.pre]
           ELSE events[p] = evLast.before[p]
    /\ IdsOf(events) = IdsOf(evLast.before)

\* Another item was taken out (item i is still there), and item i moved to
\* a position that is not its id, while i's call was in flight; the
\* rejection then restored i's flag.
C3_Witness ==
  /\ evLast.op = "toggleFail"
  /\ evLast.rel = "removed"
  /\ \E p \in DOMAIN events :
       /\ events[p].id = evLast.id
       /\ p # evLast.id
       /\ evLast.before[p].isBookmarked # evLast.pre
       /\ events[p].isBookmarked = evLast.pre

\* C6 -- Toggle remote call choice: the call a toggle of item i issues is a
\* POST when i's flag in the collection just before the optimistic flip was
\* false and a DELETE when it was true, also when an earlier call for the
\* same item is still in flight.
C6_CallFromPreToggleFlag ==
  evLast.op = "toggle" =>
    \E p \in DOMAIN evLast.before :
      /\ evLast.before[p].id = evLast.id
      /\ [event |-> evLast.before[p],
          method |-> IF evLast.before[p].isBookmarked THEN "DELETE" ELSE "POST"]
           \in BagToSet(toggles)
      /\ \A call \in BagToSet(toggles) :
           call.event = evLast.before[p] =>
             call.method = IF evLast.before[p].isBookmarked THEN "DELETE" ELSE "POST"

\* A toggle of an item whose earlier call is still in flight.
C6_Witness ==
  /\ evLast.op = "toggle"
  /\ \E c1, c2 \in BagToSet(toggles) :
       /\ c1.event.id = evLast.id
       /\ c2.event.id = evLast.id
       /\ c1.method = "POST"
       /\ c2.method = "DELETE"

\* C7 -- Toggle immediate effect: right after the toggle step, and with its
\* call still in flight, the collection is the one the toggle found with only
\* item i's isBookmarked flipped: same ids, same order, every other field and
\* every other item unchanged.
C7_ToggleFlipsOnlyTarget ==
  evLast.op = "toggle" =>
    /\ Len(events) = Len(evLast.before)
    /\ \A p \in DOMAIN events :
         IF evLast.before[p].id = evLast.id
           THEN events[p] = [evLast.before[p] EXCEPT !.isBookmarked = ~evLast.pre]
           ELSE events[p] = evLast.before[p]
    /\ FlagOf(evLast.before, evLast.id) = {evLast.pre}
    /\ \E call \in BagToSet(toggles) :
         call.event.id = evLast.id /\ call.event.isBookmarked = evLast.pre

C7_Witness ==
  /\ evLast.op = "toggle"
  /\ Len(events) >= 2
  /\ \E p \in DOMAIN events : events[p].id # evLast.id /\ events[p].isBookmarked

\* C4 -- Removal rollback: right after handleRemoveBookmark on item k no
\* entry of the collection has id k and the other entries are as they were;
\* when the DELETE then rejects, item k is in the collection again, equal to
\* its pre-removal value, and every item that was present is still present.
C4_RemovalRollback ==
  /\ bmLast.op = "remove" =>
       /\ bmLast.event.id \notin Range(IdsOf(bmEvents))
       /\ bmLast.event \in Range(bmLast.before)
       /\ Range(bmEvents) = Range(bmLast.before) \ {bmLast.event}
  /\ bmLast.op = "removeFail" =>
       /\ bmLast.event \in Range(bmEvents)
       /\ Range(bmLast.before) \subseteq Range(bmEvents)
       /\ bmLast.direct => Range(bmEvents) = Range(bmLast.orig)

C4_Witness ==
  /\ bmLast.op = "removeFail"
  /\ bmLast.direct
  /\ Len(bmLast.orig) >= 2
  /\ bmLast.event \in Range(bmLast.orig)
  /\ bmLast.event \notin Range(bmLast.before)

InMarkCalls(id) == id \in BagToSet(markCalls)

C8_LoadingIndicatorWhileUnknown ==
  SessionState = "unknown" =>
    /\ AppView \notin {"login", "events", "bookmarks", "notifications"}
    /\ AppView = "loading-indicator"

\* C9 -- Session transitions: the session starts unknown and changes state
\* only by: unknown to authenticated when the check fulfils, unknown to
\* anonymous when it rejects, anonymous to authenticated when a login or a
\* register fulfils, authenticated to anonymous when a logout fulfils.
\* Unknown is never re-entered, and a rejected login or register leaves the
\* session in the state it found (anonymous stays anonymous).
C9_SessionTransitions ==
  LET from == seLast.from
      to == SessionState
      op == seLast.op
  IN /\ op = "init" => to = "unknown"
     /\ to = "unknown" => op = "init"
     /\ from # to =>
          \/ from = "unknown" /\ to = "authenticated" /\ op = "checkOk"
          \/ from = "unknown" /\ to = "anonymous" /\ op = "checkFail"
          \/ from = "anonymous" /\ to = "authenticated" /\ op \in {"loginOk", "registerOk"}
          \/ from = "authenticated" /\ to = "anonymous" /\ op = "logoutOk"
     /\ op = "checkOk" => from = "unknown" /\ to = "authenticated"
     /\ op = "checkFail" => from = "unknown" /\ to = "anonymous"
     /\ op \in {"loginOk", "registerOk"} => to = "authenticated" /\ user = seLast.id
     /\ op = "logoutOk" => to = "anonymous"
     /\ op \in {"loginFail", "registerFail"} => to = from

\* A login that rejected while the session was anonymous: the session is
\* still anonymous and the form shows its error.
C9_Witness ==
  /\ seLast.op = "loginFail"
  /\ seLast.from = "anonymous"
  /\ SessionState = "anonymous"
  /\ page = "login"
  /\ authError

\* C10 -- Logout clears the session: once the call of a logout, invoked from
\* the authenticated state, has resolved (fulfilled or rejected), the session
\* holds no identity.
C10_LogoutClearsSession ==
  seLast.op \in {"logoutOk", "logoutFail"} =>
    /\ user = NoUser
    /\ SessionState = "anonymous"

\* What the events page shows below its header: the loading line while
\* isLoading, the empty line for an empty collection, the cards otherwise.
EventsShown ==
  IF evLoading THEN "loading"
  ELSE IF Len(events) = 0 THEN "empty" ELSE "cards"

BookmarksShown ==
  IF bmLoading THEN "loading"
  ELSE IF Len(bmEvents) = 0 THEN "empty" ELSE "cards"

\* C11 -- List fetch failure: after a list fetch has rejected, the page shows
\* the empty list, also when the fetch was a refresh issued while a
\* non-empty list was shown.
C11_FetchFailureShowsEmpty ==
  evLast.op = "fetchFail" => EventsShown = "empty"

\* C12 -- Authentication failure redirect: no catch of the code inspects the
\* status of a rejection, so a 401 is a rejection like any other.  After the
\* session check rejects the session is anonymous (the [user] effect then
\* shows the login page); after a later call of an authenticated user
\* rejects (the notification fetch, the mark-read PUT), the session is
\* anonymous and the page is the login page.
C12_AuthFailureRedirects ==
  /\ seLast.op = "checkFail" => SessionState = "anonymous"
  /\ (seLast.op = "effect" /\ SessionState = "anonymous") => page = "login"
  /\ seLast.op \in {"notifFetchFail", "markReadFail"} =>
       /\ SessionState = "anonymous"
       /\ page = "login"

Flipped(flags) == {~b : b \in flags}

\* C13 -- Cross-mutation independence: in a run where items are toggled
\* concurrently, the flag of every item that was toggled once is decided by
\* its own call alone, whatever the other calls do and in whatever order
\* they resolve: not-f while the call is in flight and after it fulfilled,
\* f after it rejected, and f for an item that was not toggled.
C13_CrossToggleIndependence ==
  \A i \in Ids :
    LET f == FlagOf(tLoaded, i) IN
      /\ tOutcome[i] \in {"idle", "fail"} => FlagOf(events, i) = f
      /\ tOutcome[i] \in {"flying", "ok"} => FlagOf(events, i) = Flipped(f)

\* Two items were toggled once each with both calls in flight together (the
\* last step is a fulfilment that did not follow its own toggle); one call
\* fulfilled and the other rejected.
C13_Witness ==
  /\ toggles = EmptyBag
  /\ evLast.op = "toggleOk"
  /\ evLast.rel # "direct"
  /\ \E i, j \in Range(IdsOf(events)) :
       /\ i # j
       /\ tOutcome[i] = "ok"
       /\ tOutcome[j] = "fail"
       /\ \A k \in Ids \ {i, j} : tOutcome[k] = "idle"

CallsInFlightFor(i) == {call \in BagToSet(toggles) : call.event.id = i}

\* C15 -- Quiescent consistency of the bookmark flag: the first fetch shows
\* the server's bookmark state; after any toggles of item i, overlapping or
\* not, fulfilled or rejected in any order, whenever no call for i is in
\* flight the flag shown for i is the server's bookmark state of i.
C15_QuiescentFlagMatchesServer ==
  \A i \in Range(IdsOf(events)) :
    CallsInFlightFor(i) = {} => FlagOf(events, i) = {srvBookmarked[i]}

\* C14 -- Mutation failures are absorbed: the step in which a bookmark or
\* unbookmark call of the events page, the DELETE of the bookmarks page or a
\* mark-read PUT rejects changes the page's own collection at most (the
\* rollback keeps the ids of the events page; mark-read changes nothing),
\* changes no other state of its page, of another page or of the session,
\* starts no call, and leaves no rejection unhandled.
C14_MutationFailuresAbsorbed ==
  [][ /\ (evLast'.op = "toggleFail" /\ toggles' # toggles) =>
           /\ IdsOf(events') = IdsOf(events)
           /\ UNCHANGED <<evLoading, evFetches, bmVars, seVars>>
      /\ (bmLast'.op = "removeFail" /\ removals' # removals) =>
           /\ Range(bmEvents) \subseteq Range(bmEvents')
           /\ UNCHANGED <<bmLoading, bmFetches, evVars, seVars>>
      /\ (seLast'.op = "markReadFail" /\ markCalls' # markCalls) =>
           /\ UNCHANGED <<user, authLoading, checkCalls, authCalls, logoutCalls,
                          authError, page, notifications, effectDue, notifFetches,
                          unhandled, evVars, bmVars>>
    ]_vars

\* A mark-read PUT has rejected on the notifications page of a logged-in
\* user and no rejection is unhandled.
C14_Witness ==
  /\ seLast.op = "markReadFail"
  /\ user # NoUser
  /\ page = "notifications"
  /\ ~unhandled
  /\ Len(notifications) > 0

\* C16 -- Unique ids in the bookmark list: the fetch delivers pairwise
\* distinct ids, and after any removals, overlapping or not, and any
\* fulfilment or rejection of their DELETEs, no two items of the collection
\* have the same id.
C16_BookmarkIdsUnique == DistinctIds(bmEvents)

\* Two removals were in flight together and a rejection has put its item
\* back next to another item.
C16_Witness ==
  /\ bmLast.op = "removeFail"
  /\ ~bmLast.direct
  /\ Len(bmEvents) >= 2
  /\ bmLast.event \in Range(bmEvents)

\* C17 -- Notifications belong to the current session: whenever a user is
\* authenticated, the list MainApp holds (and the badge counted from it) is
\* empty or was delivered by a fetch made in that user's current session.
C17_NotificationsOfCurrentUser ==
  SessionState = "authenticated" =>
    \/ notifications = << >> /\ unreadCount = 0
    \/ notifFresh

ProtectedPages == {"events", "bookmarks", "notifications"}

\* C18 -- Page follows session: in every state in which page content is
\* rendered, a protected page is rendered only while a user is authenticated
\* and the login page only while the session is anonymous.
C18_PageFollowsSession ==
  AppView \in ProtectedPages \cup {"login"} =>
    /\ AppView \in ProtectedPages => SessionState = "authenticated"
    /\ AppView = "login" => SessionState = "anonymous"

\* C19 -- Removal rollback position: after a removal's DELETE rejects, the
\* removed item is the last element of the collection and the elements
\* before it are the collection the rejection found, in the same order; the
\* item does not return to the position it was removed from.
C19_ReinsertedLast ==
  bmLast.op = "removeFail" =>
    /\ Len(bmEvents) = Len(bmLast.before) + 1
    /\ bmEvents[Len(bmEvents)] = bmLast.event
    /\ SubSeq(bmEvents, 1, Len(bmEvents) - 1) = bmLast.before

\* The first of two items was removed and its DELETE rejected at once: the
\* item is now the last one and the collection is not the one the click found.
C19_Witness ==
  /\ bmLast.op = "removeFail"
  /\ bmLast.direct
  /\ Len(bmLast.orig) >= 2
  /\ bmLast.orig[1] = bmLast.event
  /\ bmEvents[Len(bmEvents)] = bmLast.event
  /\ bmEvents # bmLast.orig

\* C20 -- Loading flag clears: with every remote call resolving in the end,
\* the isLoading flag of the component that runs, whenever true, is false
\* again later, that is, it is false again and again (for the events page
\* also when Refresh is clicked over and over); and a card was toggled or
\* removed only while its list's isLoading was false.
C20_LoadingClears ==
  /\ []<>(~evLoading \/ ~(BmInit /\ SeInit))
  /\ []<>(~bmLoading \/ ~(EvInit /\ SeInit))
  /\ []<>(~authLoading \/ ~(EvInit /\ BmInit))
  /\ [](evLast.op = "toggle" => ~evLoading)
  /\ [](bmLast.op = "remove" => ~bmLoading)

\* A refresh of a loaded events page has failed: no fetch is in flight and
\* the page is off its loading line.
C20_Witness ==
  /\ evLast.op = "fetchFail"
  /\ evFetches = 0
  /\ Len(events) > 0
  /\ ~evLoading
  /\ EventsShown # "loading"

=============================================================================
